---- MODULE Spec2Model ----
(***************************************************************************)
(* InsuranceCalculator (src/src/lib.rs): a per-pool ring of 30 hourly      *)
(* prices, the volatility estimate made of it, and the insurance and       *)
(* flash-loan fee calculations.                                            *)
(*                                                                         *)
(* Every quantity of the contract is a U256.  A U256 is kept here as the   *)
(* sequence of its digits in base 1000, least significant first, without   *)
(* leading zero digits (0 is the empty sequence), so that 1e18, 2^256 - 1  *)
(* and every intermediate product are exact.  The operators +, -, *, pow   *)
(* of U256 wrap modulo 2^256, / and % panic on a zero divisor, checked_*   *)
(* return None on overflow or division by zero.                            *)
(*                                                                         *)
(* A call is modelled as the function the source defines: the storage      *)
(* writes a call made before it returned an error or panicked stay in the  *)
(* state, as nothing in the source undoes them.                            *)
(***************************************************************************)
EXTENDS Integers, Sequences, FiniteSets, TLC

\* ------------------------------------------------------------------------
\* Naturals of any size, base Limb
\* ------------------------------------------------------------------------

Limb == 1000

\* digit i of a, 0 beyond its length
Dig(a, i) == IF i >= 1 /\ i <= Len(a) THEN a[i] ELSE 0

\* the function f on 1..n as a tuple
Tuple(f, n) == SubSeq(f, 1, n)

\* a without its leading zero digits
Norm(a) ==
    SubSeq(a, 1, CHOOSE t \in 0..Len(a) :
                     /\ t = 0 \/ a[t] # 0
                     /\ \A k \in (t + 1)..Len(a) : a[k] = 0)

\* the natural n < Limb^4 as a digit sequence
FromInt(n) ==
    Norm(<<n % Limb, (n \div Limb) % Limb, (n \div (Limb * Limb)) % Limb,
           n \div (Limb * Limb * Limb)>>)

\* the value of a digit sequence of at most 3 digits
ToInt(a) == Dig(a, 1) + Limb * Dig(a, 2) + Limb * Limb * Dig(a, 3)

\* a < b
BLt(a, b) ==
    \/ Len(a) < Len(b)
    \/ /\ Len(a) = Len(b)
       /\ \E i \in 1..Len(a) :
              /\ a[i] < b[i]
              /\ \A k \in (i + 1)..Len(a) : a[k] = b[k]

\* a <= b
BLe(a, b) == ~BLt(b, a)

\* how far below position i the nearest digit sum other than `neutral` lies
\* (i itself if there is none): the position that decides the carry into i
Decider(s, i, neutral) ==
    CHOOSE t \in 1..i :
        /\ t = i \/ s[i - t] # neutral
        /\ \A u \in 1..(t - 1) : s[i - u] = neutral

\* the carry into position i of the digit sums s, decided t positions below
CarryAt(s, i, t) == IF t < i /\ s[i - t] >= Limb THEN 1 ELSE 0

\* the digit sums s (each at most 2 * Limb - 2) with their carries resolved
Carried(s) ==
    Norm(Tuple([i \in 1..Len(s) |->
                    (s[i] + CarryAt(s, i, Decider(s, i, Limb - 1))) % Limb],
               Len(s)))

\* the longer of two lengths
Longer(m, n) == IF m > n THEN m ELSE n

\* a + b
BAdd(a, b) ==
    Carried(Tuple([i \in 1..(Longer(Len(a), Len(b)) + 1) |-> Dig(a, i) + Dig(b, i)],
                  Longer(Len(a), Len(b)) + 1))

\* the borrow from position i of the digit differences s
BorrowAt(s, i, t) == IF t < i /\ s[i - t] < 0 THEN 1 ELSE 0

\* the digit differences s with their borrows resolved
Borrowed(s) ==
    Norm(Tuple([i \in 1..Len(s) |->
                    (s[i] - BorrowAt(s, i, Decider(s, i, 0)) + Limb) % Limb],
               Len(s)))

\* a - b, for b <= a
BSub(a, b) == Borrowed(Tuple([i \in 1..Len(a) |-> a[i] - Dig(b, i)], Len(a)))

\* f[lo] + ... + f[hi]
RECURSIVE SumRange(_, _, _)
SumRange(f, lo, hi) ==
    IF lo > hi THEN 0
    ELSE IF lo = hi THEN f[lo]
    ELSE SumRange(f, lo, (lo + hi) \div 2) + SumRange(f, (lo + hi) \div 2 + 1, hi)

\* column k of the long multiplication of a by b: the sum of a[i] * b[j]
\* over i + j = k + 1
Column(a, b, k) ==
    SumRange([i \in 1..Len(a) |-> a[i] * Dig(b, k + 1 - i)],
             Longer(k + 1 - Len(b), 1),
             IF k < Len(a) THEN k ELSE Len(a))

\* the value of the columns col (each below Limb^3): their digits in three
\* rows, added
ColumnsValue(col) ==
    BAdd(BAdd(Tuple([k \in 1..Len(col) |-> col[k] % Limb], Len(col)),
              Tuple([k \in 1..(Len(col) + 1) |->
                         IF k = 1 THEN 0 ELSE (col[k - 1] \div Limb) % Limb],
                    Len(col) + 1)),
         Tuple([k \in 1..(Len(col) + 2) |->
                    IF k <= 2 THEN 0 ELSE col[k - 2] \div (Limb * Limb)],
               Len(col) + 2))

\* a * b, for operands of at most 1000 digits
BMul(a, b) ==
    IF a = <<>> \/ b = <<>> THEN <<>>
    ELSE ColumnsValue(Tuple([k \in 1..(Len(a) + Len(b) - 1) |-> Column(a, b, k)],
                            Len(a) + Len(b) - 1))

\* a * m for a single digit m
BMulSmall(a, m) ==
    IF m = 0 THEN <<>>
    ELSE BAdd(Tuple([i \in 1..Len(a) |-> (a[i] * m) % Limb], Len(a)),
              Tuple([i \in 1..(Len(a) + 1) |->
                         IF i = 1 THEN 0 ELSE (a[i - 1] * m) \div Limb],
                    Len(a) + 1))

\* the digits m+1, m+2, m+3 of a as a number
Top(a, m) == Dig(a, m + 1) + Limb * Dig(a, m + 2) + Limb * Limb * Dig(a, m + 3)

\* the quotient digit cur \div d among lo..hi
QPick(cur, d, lo, hi) ==
    IF lo = hi THEN lo
    ELSE CHOOSE q \in lo..hi :
             /\ BLe(BMulSmall(d, q), cur)
             /\ q = hi \/ BLt(cur, BMulSmall(d, q + 1))

\* cur \div d for d <= cur < Limb * d: exact for a divisor of one or two
\* digits, else bracketed by the leading digits of cur and d
QDigit(cur, d) ==
    IF Len(d) <= 2 THEN Top(cur, 0) \div Top(d, 0)
    ELSE QPick(cur, d,
               Top(cur, Len(d) - 2) \div (Top(d, Len(d) - 2) + 1),
               IF Top(cur, Len(d) - 2) \div Top(d, Len(d) - 2) > Limb - 1
               THEN Limb - 1
               ELSE Top(cur, Len(d) - 2) \div Top(d, Len(d) - 2))

\* one step of the long division by d: the quotient digit qd of cur is put
\* before the quotient s.q
DivTake(d, s, cur, qd) ==
    [q |-> Norm(<<qd>> \o s.q), r |-> BSub(cur, BMulSmall(d, qd))]

\* the step for the running remainder cur (the next digit of the dividend
\* put before the remainder so far)
DivDigit(d, s, cur) ==
    IF BLt(cur, d) THEN [q |-> Norm(<<0>> \o s.q), r |-> cur]
    ELSE DivTake(d, s, cur, QDigit(cur, d))

\* the long division of a by d over the digits lo..hi of a counted from the
\* most significant, from the quotient and remainder s
RECURSIVE DivRange(_, _, _, _, _)
RECURSIVE DivRest(_, _, _, _, _)
DivRange(a, d, s, lo, hi) ==
    IF lo > hi THEN s
    ELSE IF lo = hi THEN DivDigit(d, s, Norm(<<a[Len(a) + 1 - lo]>> \o s.r))
    ELSE DivRest(a, d, DivRange(a, d, s, lo, (lo + hi) \div 2),
                 (lo + hi) \div 2 + 1, hi)

\* the division continued after the part `left` of it (whose remainder is
\* below d)
DivRest(a, d, left, lo, hi) ==
    IF BLt(left.r, d) THEN DivRange(a, d, left, lo, hi) ELSE left

\* d is a power of Limb
IsShift(d) == d[Len(d)] = 1 /\ \A i \in 1..(Len(d) - 1) : d[i] = 0

\* quotient and remainder of a by d # 0
BDivMod(a, d) ==
    IF BLt(a, d) THEN [q |-> <<>>, r |-> a]
    ELSE IF IsShift(d)
    THEN [q |-> SubSeq(a, Len(d), Len(a)), r |-> Norm(SubSeq(a, 1, Len(d) - 1))]
    ELSE DivRange(a, d, [q |-> <<>>, r |-> <<>>], 1, Len(a))

BDiv(a, d) == BDivMod(a, d).q

BMod(a, d) == BDivMod(a, d).r

\* ------------------------------------------------------------------------
\* U256 (alloy_primitives::U256, re-exported from ruint)
\* ------------------------------------------------------------------------

\* 2^256 =
\* 115792089237316195423570985008687907853269984665640564039457584007913129639936
TwoTo256 ==
    <<936, 639, 129, 913, 7, 584, 457, 39, 564, 640, 665, 984, 269, 853, 907,
      687, 8, 985, 570, 423, 195, 316, 237, 89, 792, 115>>

\* U256::MAX = 2^256 - 1
U256Max ==
    <<935, 639, 129, 913, 7, 584, 457, 39, 564, 640, 665, 984, 269, 853, 907,
      687, 8, 985, 570, 423, 195, 316, 237, 89, 792, 115>>

\* Option::None of a checked operation; the panic of an unchecked one
None  == <<-1>>
Panic == <<-2>>

\* v below 2^257 reduced modulo 2^256
Wrapped(v) == IF BLt(v, TwoTo256) THEN v ELSE BSub(v, TwoTo256)

\* v if it fits in 256 bits
Checked(v) == IF BLt(v, TwoTo256) THEN v ELSE None

\* a + b
wrapping_add(a, b) == Wrapped(BAdd(a, b))

\* a - b
wrapping_sub(a, b) ==
    IF BLe(b, a) THEN BSub(a, b) ELSE BSub(BAdd(a, TwoTo256), b)

\* a * b
wrapping_mul(a, b) == BMod(BMul(a, b), TwoTo256)

\* a / b
div(a, b) == IF b = <<>> THEN Panic ELSE BDiv(a, b)

\* a % b
rem(a, b) == IF b = <<>> THEN Panic ELSE BMod(a, b)

checked_add(a, b) == Checked(BAdd(a, b))

checked_sub(a, b) == IF BLe(b, a) THEN BSub(a, b) ELSE None

\* the product reduced modulo 2^256 with no sign of the overflow
unchecked_mul(a, b) == BMod(BMul(a, b), TwoTo256)

checked_mul(a, b) == Checked(BMul(a, b))

checked_div(a, b) == IF b = <<>> THEN None ELSE BDiv(a, b)

\* o.and_then(|v| v.checked_mul(b)), and its like
and_then_mul(o, b) == IF o = None THEN None ELSE checked_mul(o, b)

and_then_div(o, b) == IF o = None THEN None ELSE checked_div(o, b)

and_then_add(o, b) == IF o = None THEN None ELSE checked_add(o, b)

\* o.and_then(|v| a.checked_sub(v))
and_then_sub_from(o, a) == IF o = None THEN None ELSE checked_sub(a, o)

\* o.unwrap_or(d)
unwrap_or(o, d) == IF o = None THEN d ELSE o

\* base.pow(exp), by squaring
RECURSIVE pow(_, _)
pow(base, exp) ==
    IF exp = 0 THEN <<1>>
    ELSE IF exp % 2 = 1
    THEN wrapping_mul(pow(wrapping_mul(base, base), exp \div 2), base)
    ELSE pow(wrapping_mul(base, base), exp \div 2)

\* U256::from(1e18), U256::from(1e9)
E18 == <<0, 0, 0, 0, 0, 0, 1>>
E9  == <<0, 0, 0, 1>>

\* ------------------------------------------------------------------------
\* Results: Result<U256, Error>, and a panic of the call
\* ------------------------------------------------------------------------

Ok(v) == [tag |-> "Ok", val |-> v]
CalculationError == [tag |-> "CalculationError", val |-> <<>>]
Panicked == [tag |-> "Panic", val |-> <<>>]
Diverged == [tag |-> "Unfinished", val |-> <<>>]

\* o.ok_or(Error::CalculationError(CalculationError{}))
ok_or(o) == IF o = None THEN CalculationError ELSE Ok(o)

\* ------------------------------------------------------------------------
\* InsuranceCalculator::sqrt
\* ------------------------------------------------------------------------

\* the iterations of the while loop that are followed
MaxSqrtIter == 300

\* a loop still running after MaxSqrtIter iterations
Unfinished == <<-3>>

\* z = (x + 1) / 2; y = x
SqrtStart(x) ==
    [y |-> x, z |-> div(wrapping_add(x, <<1>>), <<2>>), st |-> "run"]

\* y = z; z = (qt + z) / 2 for qt = x / z
SqrtNext(s, qt) ==
    IF qt = Panic THEN [y |-> s.z, z |-> s.z, st |-> "panic"]
    ELSE [y |-> s.z, z |-> div(wrapping_add(qt, s.z), <<2>>), st |-> "run"]

\* the test of the while loop and one run of its body
SqrtStep(x, s) ==
    IF ~BLt(s.z, s.y) THEN [s EXCEPT !.st = "done"]
    ELSE SqrtNext(s, div(x, s.z))

\* the iterations lo..hi of the loop, from the state s
RECURSIVE SqrtRange(_, _, _, _)
RECURSIVE SqrtRest(_, _, _, _)
SqrtRange(x, s, lo, hi) ==
    IF lo > hi THEN s
    ELSE IF lo = hi THEN SqrtStep(x, s)
    ELSE SqrtRest(x, SqrtRange(x, s, lo, (lo + hi) \div 2),
                  (lo + hi) \div 2 + 1, hi)

\* the loop continued after the iterations that led to `left`
SqrtRest(x, left, lo, hi) ==
    IF left.st # "run" THEN left ELSE SqrtRange(x, left, lo, hi)

\* what the loop left: y, or the panic of the division
SqrtValue(s) ==
    IF s.st = "done" THEN s.y
    ELSE IF s.st = "panic" THEN Panic
    ELSE Unfinished

sqrt(x) ==
    IF x = <<>> THEN <<>>
    ELSE SqrtValue(SqrtRange(x, SqrtStart(x), 1, MaxSqrtIter))

\* ------------------------------------------------------------------------
\* InsuranceCalculator::calculate_volatility
\* ------------------------------------------------------------------------

\* uint256[30] price_history
HistoryLen == 30

U3600  == <<600, 3>>
Thirty == <<30>>

\* always accept: the gate left out
gate_open(timestamp, last_update) == TRUE

\* timestamp >= last_update + U256::from(3600)
gate(timestamp, last_update) == BLe(wrapping_add(last_update, U3600), timestamp)

\* the index moved on without the reduction modulo 30
next_index_unreduced(update_index) == wrapping_add(update_index, <<1>>)

\* (update_index + U256::from(1)) % U256::from(30)
next_index(update_index) == rem(wrapping_add(update_index, <<1>>), Thirty)

\* new_index.try_into().unwrap_or(0)
to_usize(new_index) == IF Len(new_index) <= 3 THEN ToInt(new_index) ELSE 0

\* price_history.setter(index), Some below the length, and its set
set_element(h, index, current_price) ==
    IF index < HistoryLen THEN [h EXCEPT ![index] = current_price] ELSE h

\* the body of the gated branch, for the computed new_index
store_sample(pool, new_index, current_price, timestamp) ==
    [price_history        |-> set_element(pool.price_history,
                                          to_usize(new_index), current_price),
     price_update_index   |-> new_index,
     price_data_timestamp |-> timestamp,
     accepted             |-> TRUE]

\* the gated branch on the fields of one pool
update_price_history(pool, current_price, timestamp) ==
    IF gate(timestamp, pool.price_data_timestamp)
    THEN store_sample(pool, next_index(pool.price_update_index), current_price,
                      timestamp)
    ELSE [pool EXCEPT !.accepted = FALSE]

\* a decay factor of 1 for every slot
decay_flat(i) == <<1>>

\* U256::from(95).pow(i).checked_div(U256::from(100).pow(i))
decay_factor(i) == checked_div(pow(<<95>>, i), pow(<<100>>, i))

\* decay_factor for the loop's i = 0..29, kept as a table (entry i + 1)
DecayTable == Tuple([k \in 1..HistoryLen |-> decay_factor(k - 1)], HistoryLen)

\* the distance of the two prices, the larger minus the smaller
price_diff(last_valid_price, historical_price) ==
    IF BLt(historical_price, last_valid_price)
    THEN wrapping_sub(last_valid_price, historical_price)
    ELSE wrapping_sub(historical_price, last_valid_price)

\* price_diff * 1e18 / historical_price
return_value(last_valid_price, historical_price) ==
    and_then_div(checked_mul(price_diff(last_valid_price, historical_price), E18),
                 historical_price)

\* (return_value * return_value / 1e18) * decay_factor / 1e18, added to the
\* sum
add_prescaled_return(sum_squared_returns, rv, decay) ==
    and_then_add(
        and_then_div(
            and_then_mul(and_then_div(checked_mul(rv, rv), E18), decay),
            E18),
        sum_squared_returns)

\* return_value * return_value * decay_factor / 1e18, added to the sum
add_squared_return(sum_squared_returns, rv, decay) ==
    and_then_add(and_then_div(and_then_mul(checked_mul(rv, rv), decay), E18),
                 sum_squared_returns)

\* the loop variables at the start of the scan
ScanStart(current_price) ==
    [sum_squared_returns |-> <<>>, valid_points |-> <<>>,
     last_valid_price |-> current_price, err |-> FALSE]

\* the end of the loop body, for the new sum; s.err is the `?` return
ScanAdd(s, historical_price, sum) ==
    IF sum = None THEN [s EXCEPT !.err = TRUE]
    ELSE [sum_squared_returns |-> sum,
          valid_points        |-> wrapping_add(s.valid_points, <<1>>),
          last_valid_price    |-> historical_price,
          err                 |-> FALSE]

\* the loop body for a nonzero slot, for its return value and decay factor
ScanReturn(s, historical_price, decay, rv) ==
    IF rv = None \/ decay = None THEN [s EXCEPT !.err = TRUE]
    ELSE ScanAdd(s, historical_price,
                 add_squared_return(s.sum_squared_returns, rv, decay))

\* one run of the loop body, for slot i
ScanStep(h, s, i) ==
    IF h[i] = <<>> THEN s
    ELSE ScanReturn(s, h[i], DecayTable[i + 1],
                    return_value(s.last_valid_price, h[i]))

\* the loop over the slots lo..hi, left at the first `?` return
RECURSIVE ScanRange(_, _, _, _)
RECURSIVE ScanRest(_, _, _, _)
ScanRange(h, s, lo, hi) ==
    IF lo > hi THEN s
    ELSE IF lo = hi THEN ScanStep(h, s, lo)
    ELSE ScanRest(h, ScanRange(h, s, lo, (lo + hi) \div 2),
                  (lo + hi) \div 2 + 1, hi)

\* the loop continued after the slots that led to `left`
ScanRest(h, left, lo, hi) ==
    IF left.err THEN left ELSE ScanRange(h, left, lo, hi)

\* Self::sqrt(U256::from(365 * 24))
annualization == sqrt(FromInt(365 * 24))

\* root * annualization / 1e9, for root = sqrt(avg_squared_return)
annualized(root) ==
    IF root = Panic THEN Panicked
    ELSE IF root = Unfinished THEN Diverged
    ELSE ok_or(and_then_div(checked_mul(root, annualization), E9))

\* the volatility for the computed avg_squared_return
volatility_of(avg_squared_return) ==
    IF avg_squared_return = None THEN CalculationError
    ELSE annualized(sqrt(avg_squared_return))

\* what follows the loop without the return for valid_points = 0
ScanResultUnguarded(s) ==
    IF s.err THEN CalculationError
    ELSE volatility_of(and_then_div(checked_mul(s.sum_squared_returns, E18),
                                    s.valid_points))

\* what follows the loop, for the loop variables s
ScanResult(s) ==
    IF s.err THEN CalculationError
    ELSE IF s.valid_points = <<>> THEN Ok(<<>>)
    ELSE volatility_of(and_then_div(checked_mul(s.sum_squared_returns, E18),
                                    s.valid_points))

\* the scan of the stored history h and the estimate made of it
estimate(h, current_price) ==
    ScanResult(ScanRange(h, ScanStart(current_price), 0, HistoryLen - 1))

\* the fields u of the pool after the gated branch, with the estimate
with_estimate(u, current_price) ==
    [price_history        |-> u.price_history,
     price_update_index   |-> u.price_update_index,
     price_data_timestamp |-> u.price_data_timestamp,
     accepted             |-> u.accepted,
     result               |-> estimate(u.price_history, current_price)]

\* the whole call on the fields of one pool: the gated update, then the
\* estimate of the history as it then stands
calculate_volatility(pool, current_price, timestamp) ==
    with_estimate(update_price_history(pool, current_price, timestamp),
                  current_price)

\* ------------------------------------------------------------------------
\* InsuranceCalculator::calculate_insurance_fee
\* ------------------------------------------------------------------------

\* U256::from(1_000_000_000_000_000u64), U256::from(9e17), U256::from(2e18)
E15     == <<0, 0, 0, 0, 0, 1>>
NineE17 == <<0, 0, 0, 0, 0, 900>>
TwoE18  == <<0, 0, 0, 0, 0, 0, 2>>

\* 1e18 - total_volume * 9e17 / (total_volume + 1e18)
volume_multiplier(total_volume) ==
    IF total_volume = <<>> THEN E18
    ELSE and_then_sub_from(
             and_then_div(checked_mul(total_volume, NineE17),
                          wrapping_add(total_volume, E18)),
             E18)

\* (1e18 + 2 * volatility) / 1e18
volatility_multiplier(volatility) ==
    and_then_div(and_then_add(checked_mul(volatility, <<2>>), E18), E18)

\* (1e18 + 3 * historical_il) / 1e18
il_multiplier(il) ==
    and_then_div(and_then_add(checked_mul(il, <<3>>), E18), E18)

\* 1e18 + amount * 1e18 / total_liquidity
size_multiplier(amount, total_liquidity) ==
    IF total_liquidity = <<>> THEN TwoE18
    ELSE and_then_add(and_then_div(checked_mul(amount, E18), total_liquidity), E18)

\* base_fee times the four multipliers, divided three times by 1e18
insurance_fee(vm, vlm, ilm, sm) ==
    and_then_div(
        and_then_div(
            and_then_div(
                and_then_mul(
                    and_then_mul(
                        and_then_mul(checked_mul(E15, vm), vlm),
                        ilm),
                    sm),
                E18),
            E18),
        E18)

\* the multipliers a call computed (None: not computed, or failed) and its
\* result
Computed(vm, vlm, ilm, sm, result) ==
    [volume_multiplier |-> vm, volatility_multiplier |-> vlm,
     il_multiplier |-> ilm, size_multiplier |-> sm, result |-> result]

\* the call from the computed size_multiplier on
FeeFromSize(vm, vlm, ilm, sm) ==
    IF sm = None THEN Computed(vm, vlm, ilm, None, CalculationError)
    ELSE Computed(vm, vlm, ilm, sm, ok_or(insurance_fee(vm, vlm, ilm, sm)))

\* the call from the computed il_multiplier on
FeeFromIl(vm, vlm, ilm, amount, total_liquidity) ==
    IF ilm = None THEN Computed(vm, vlm, None, None, CalculationError)
    ELSE FeeFromSize(vm, vlm, ilm, size_multiplier(amount, total_liquidity))

\* the call from the computed volatility_multiplier on
FeeFromVolatility(vm, vlm, il, amount, total_liquidity) ==
    IF vlm = None THEN Computed(vm, None, None, None, CalculationError)
    ELSE FeeFromIl(vm, vlm, il_multiplier(il), amount, total_liquidity)

\* the call from the computed volume_multiplier on
FeeFromVolume(vm, volatility, il, amount, total_liquidity) ==
    IF vm = None THEN Computed(None, None, None, None, CalculationError)
    ELSE FeeFromVolatility(vm, volatility_multiplier(volatility), il, amount,
                           total_liquidity)

\* the call after calculate_volatility returned vol, for the stored
\* historical_il of the pool
calculate_insurance_fee(vol, il, amount, total_liquidity, total_volume) ==
    IF vol.tag # "Ok" THEN Computed(None, None, None, None, vol)
    ELSE FeeFromVolume(volume_multiplier(total_volume), vol.val, il, amount,
                       total_liquidity)

\* ------------------------------------------------------------------------
\* InsuranceCalculator::calculate_flash_loan_fee
\* ------------------------------------------------------------------------

\* U256::from(500_000_000_000_000u64)
FiveE14 == <<0, 0, 0, 0, 500>>

\* utilization_rate * 2e18 / 1e18 + 1e18
utilization_multiplier(utilization_rate) ==
    IF utilization_rate = <<>> THEN E18
    ELSE and_then_add(and_then_div(checked_mul(utilization_rate, TwoE18), E18), E18)

\* 1e18 + 1e18 * 1e18 / (total_liquidity + 1e18), the divisor 1 when the sum
\* overflows
liquidity_multiplier(total_liquidity) ==
    IF total_liquidity = <<>> THEN TwoE18
    ELSE and_then_add(
             and_then_div(checked_mul(E18, E18),
                          unwrap_or(checked_add(total_liquidity, E18), <<1>>)),
             E18)

\* base_fee times the three multipliers, divided three times by 1e18
flash_fee(um, lm, dm) ==
    and_then_div(
        and_then_div(
            and_then_div(
                and_then_mul(and_then_mul(checked_mul(FiveE14, um), lm), dm),
                E18),
            E18),
        E18)

\* fee * amount / 1e18
final_fee(fee, amount) ==
    IF fee = None THEN CalculationError
    ELSE ok_or(and_then_div(checked_mul(fee, amount), E18))

\* the call from the computed default_multiplier on
FlashFromDefault(um, lm, dm, amount) ==
    IF dm = None THEN CalculationError
    ELSE final_fee(flash_fee(um, lm, dm), amount)

\* the call from the computed liquidity_multiplier on
FlashFromLiquidity(um, lm, default_history, amount) ==
    IF lm = None THEN CalculationError
    ELSE FlashFromDefault(um, lm, checked_add(E18, default_history), amount)

\* the call from the computed utilization_multiplier on
FlashFromUtilization(um, total_liquidity, default_history, amount) ==
    IF um = None THEN CalculationError
    ELSE FlashFromLiquidity(um, liquidity_multiplier(total_liquidity),
                            default_history, amount)

calculate_flash_loan_fee(amount, total_liquidity, utilization_rate, default_history) ==
    FlashFromUtilization(utilization_multiplier(utilization_rate),
                         total_liquidity, default_history, amount)

\* ------------------------------------------------------------------------
\* The contract's storage and its calls
\* ------------------------------------------------------------------------

\* pool ids (bytes32); every mapping reads as zero where never written
Pools == {"p1", "p2"}

VARIABLES
    last_calculation_time,
    volatility_accumulator,
    update_count,
    price_data_timestamp,
    price_history,
    price_update_index,
    historical_il,
    last,
    called,
    samples,
    calls

\* Storage: the seven mappings of the contract, each a function of the pool
\* id.  last: the latest call, its arguments and its outcome.  called: for
\* each pool the latest volatility update made on it.  samples: for each pool
\* how many samples the gate has accepted.  calls: how many calls were made.

storage ==
    <<last_calculation_time, volatility_accumulator, update_count,
      price_data_timestamp, price_history, price_update_index, historical_il>>

vars ==
    <<last_calculation_time, volatility_accumulator, update_count,
      price_data_timestamp, price_history, price_update_index, historical_il,
      last, called, samples, calls>>

ZeroHistory == [i \in 0..(HistoryLen - 1) |-> <<>>]

NotCalled == [made |-> FALSE, timestamp |-> <<>>, accepted |-> FALSE]

NoCall ==
    [op |-> "none", pool_id |-> "none", amount |-> <<>>,
     total_liquidity |-> <<>>, total_volume |-> <<>>, current_price |-> <<>>,
     timestamp |-> <<>>, utilization_rate |-> <<>>, default_history |-> <<>>,
     x |-> <<>>, accepted |-> FALSE, before |-> NotCalled,
     volume_multiplier |-> None, volatility_multiplier |-> None,
     il_multiplier |-> None, size_multiplier |-> None,
     result |-> Ok(<<>>)]

InitStorage ==
    /\ last_calculation_time  = [p \in Pools |-> <<>>]
    /\ volatility_accumulator = [p \in Pools |-> <<>>]
    /\ update_count           = [p \in Pools |-> <<>>]
    /\ price_data_timestamp   = [p \in Pools |-> <<>>]
    /\ price_history          = [p \in Pools |-> ZeroHistory]
    /\ price_update_index     = [p \in Pools |-> <<>>]
    /\ historical_il          = [p \in Pools |-> <<>>]
    /\ called  = [p \in Pools |-> NotCalled]
    /\ samples = [p \in Pools |-> 0]
    /\ calls   = 0

Init ==
    /\ InitStorage
    /\ last = NoCall

\* the fields of the pool that calculate_volatility reads
PoolOf(pool_id) ==
    [price_history        |-> price_history[pool_id],
     price_update_index   |-> price_update_index[pool_id],
     price_data_timestamp |-> price_data_timestamp[pool_id],
     accepted             |-> FALSE]

\* a write that lands in the entry of every pool
setter_every_pool(map, pool_id, v) == [p \in DOMAIN map |-> v]

\* self.<mapping>.setter(pool_id).set(v)
setter(map, pool_id, v) == [map EXCEPT ![pool_id] = v]

\* the storage writes of calculate_volatility(pool_id, current_price,
\* timestamp) with outcome r, and the record of the update
UpdateAndEstimate(pool_id, timestamp, r) ==
    /\ price_history' = setter(price_history, pool_id, r.price_history)
    /\ price_update_index' =
           setter(price_update_index, pool_id, r.price_update_index)
    /\ price_data_timestamp' =
           setter(price_data_timestamp, pool_id, r.price_data_timestamp)
    /\ UNCHANGED <<last_calculation_time, volatility_accumulator, update_count,
                   historical_il>>
    /\ called' = [called EXCEPT ![pool_id] =
                      [made |-> TRUE, timestamp |-> timestamp,
                       accepted |-> r.accepted]]
    /\ samples' = [samples EXCEPT ![pool_id] = IF r.accepted THEN @ + 1 ELSE @]

CallVolatility(pool_id, current_price, timestamp) ==
    \E r \in {calculate_volatility(PoolOf(pool_id), current_price, timestamp)} :
        /\ UpdateAndEstimate(pool_id, timestamp, r)
        /\ last' = [NoCall EXCEPT !.op = "calculate_volatility",
                                  !.pool_id = pool_id,
                                  !.current_price = current_price,
                                  !.timestamp = timestamp,
                                  !.accepted = r.accepted,
                                  !.before = called[pool_id],
                                  !.result = r.result]

CallInsuranceFee(pool_id, amount, total_liquidity, total_volume, current_price, timestamp) ==
    \E r \in {calculate_volatility(PoolOf(pool_id), current_price, timestamp)} :
        \E f \in {calculate_insurance_fee(r.result, historical_il[pool_id],
                                          amount, total_liquidity,
                                          total_volume)} :
            /\ UpdateAndEstimate(pool_id, timestamp, r)
            /\ last' = [NoCall EXCEPT
                            !.op = "calculate_insurance_fee",
                            !.pool_id = pool_id,
                            !.amount = amount,
                            !.total_liquidity = total_liquidity,
                            !.total_volume = total_volume,
                            !.current_price = current_price,
                            !.timestamp = timestamp,
                            !.accepted = r.accepted,
                            !.before = called[pool_id],
                            !.volume_multiplier = f.volume_multiplier,
                            !.volatility_multiplier = f.volatility_multiplier,
                            !.il_multiplier = f.il_multiplier,
                            !.size_multiplier = f.size_multiplier,
                            !.result = f.result]

CallFlashLoanFee(amount, total_liquidity, utilization_rate, default_history) ==
    /\ UNCHANGED <<storage, called, samples>>
    /\ last' = [NoCall EXCEPT !.op = "calculate_flash_loan_fee",
                              !.amount = amount,
                              !.total_liquidity = total_liquidity,
                              !.utilization_rate = utilization_rate,
                              !.default_history = default_history,
                              !.result =
                                  calculate_flash_loan_fee(
                                      amount, total_liquidity,
                                      utilization_rate, default_history)]

\* what a call of sqrt returns, or how it ends
sqrt_call(root) ==
    IF root = Panic THEN Panicked
    ELSE IF root = Unfinished THEN Diverged
    ELSE Ok(root)

CallSqrt(x) ==
    /\ UNCHANGED <<storage, called, samples>>
    /\ last' = [NoCall EXCEPT !.op = "sqrt", !.x = x,
                              !.result = sqrt_call(sqrt(x))]

\* ------------------------------------------------------------------------
\* Specification Spec: two pools, every public call, a bounded number of calls
\* ------------------------------------------------------------------------

MaxCalls == 2

\* 2000e18, the price of the insurance-fee scenario
Price2000 == <<0, 0, 0, 0, 0, 0, 0, 2>>

Prices == {<<>>, Price2000}

\* 3599, 3600, 7199 and the largest timestamp
Timestamps == {<<599, 3>>, U3600, <<199, 7>>, U256Max}

\* one more call, while fewer than MaxCalls were made
Counted == calls < MaxCalls /\ calls' = calls + 1

Volatility ==
    /\ Counted
    /\ \E pool_id \in Pools, current_price \in Prices, timestamp \in Timestamps :
           CallVolatility(pool_id, current_price, timestamp)

InsuranceFee ==
    /\ Counted
    /\ \E pool_id \in Pools, current_price \in Prices, timestamp \in {U3600, U256Max} :
           CallInsuranceFee(pool_id, E18, E18, <<>>, current_price, timestamp)

FlashLoanFee ==
    /\ Counted
    /\ \E amount \in {E18, U256Max} :
           CallFlashLoanFee(amount, E18, <<>>, <<>>)

Next ==
    \/ Volatility
    \/ InsuranceFee
    \/ FlashLoanFee

Spec == Init /\ [][Next]_vars

\* ------------------------------------------------------------------------
\* Specification SpecSqrt: sqrt applied once to an argument drawn from small
\* and from large values
\* ------------------------------------------------------------------------

MaxSmallRoot == 99

\* 2^64, 2^128
TwoTo64  == <<616, 551, 709, 73, 744, 446, 18>>
TwoTo128 == <<456, 211, 768, 431, 607, 374, 463, 463, 938, 920, 366, 282, 340>>

SqrtInputs ==
    {FromInt(n) : n \in 0..MaxSmallRoot}
        \cup {E9, E18, BMul(E18, E18), BMul(E18, BMul(E18, E18)),
              BSub(TwoTo64, <<1>>), TwoTo64, BSub(TwoTo128, <<1>>), TwoTo128,
              BAdd(TwoTo128, <<1>>), BMul(TwoTo64, TwoTo128),
              BSub(BMul(BSub(TwoTo128, <<1>>), BSub(TwoTo128, <<1>>)), <<1>>),
              BMul(BSub(TwoTo128, <<1>>), BSub(TwoTo128, <<1>>)),
              BDiv(TwoTo256, <<2>>), BSub(U256Max, <<1>>), U256Max}

InitSqrt ==
    /\ InitStorage
    /\ \E x \in SqrtInputs : last = [NoCall EXCEPT !.op = "argument", !.x = x]

\* the call of sqrt on the argument drawn
Sqrt ==
    /\ last.op = "argument"
    /\ UNCHANGED calls
    /\ CallSqrt(last.x)

NextSqrt == Sqrt

SpecSqrt == InitSqrt /\ [][NextSqrt]_vars

\* ------------------------------------------------------------------------
\* Specification SpecFee: one fee call, over extreme and ordinary arguments,
\* on a pool before or after its first sample
\* ------------------------------------------------------------------------

FeePool == "p1"

FeeAmounts == {E18, U256Max}

FeeLiquidities == {<<>>, E18, U256Max}

\* the first sample of the pool, before any fee call
FeeSample ==
    /\ last.op = "none"
    /\ UNCHANGED calls
    /\ \E current_price \in {<<1>>, Price2000} :
           CallVolatility(FeePool, current_price, U3600)

\* no fee call was made yet
NoFeeYet == last.op \in {"none", "calculate_volatility"}

FeeInsurance ==
    /\ NoFeeYet
    /\ UNCHANGED calls
    /\ \E amount \in FeeAmounts, total_liquidity \in FeeLiquidities,
          total_volume \in {<<>>, E18} :
           CallInsuranceFee(FeePool, amount, total_liquidity, total_volume,
                            Price2000, U3600)

FeeFlashLoan ==
    /\ NoFeeYet
    /\ UNCHANGED calls
    /\ \E amount \in FeeAmounts, total_liquidity \in FeeLiquidities,
          utilization_rate \in {<<>>, E18}, default_history \in {<<>>, E18} :
           CallFlashLoanFee(amount, total_liquidity, utilization_rate,
                            default_history)

NextFee ==
    \/ FeeSample
    \/ FeeInsurance
    \/ FeeFlashLoan

SpecFee == Init /\ [][NextFee]_vars

\* ------------------------------------------------------------------------
\* Specification SpecFeed: one pool fed hour by hour from the fresh state,
\* with queries inside the hour; a price is quoted at the samples that land
\* in slot 1 and in slot 0, the other samples carry the price 0
\* ------------------------------------------------------------------------

MaxSamples == 31

FeedPool == "p1"

\* 2000e18 * (1 + 1e-9)
Price2000Up == <<0, 0, 0, 0, 2, 0, 0, 2>>

FeedPrices == {<<>>, <<1>>, Price2000, Price2000Up}

QuotedSamples == {1, HistoryLen}

FeedSample ==
    /\ samples[FeedPool] < MaxSamples
    /\ UNCHANGED calls
    /\ \E current_price \in
              IF (samples[FeedPool] + 1) \in QuotedSamples
              THEN FeedPrices ELSE {<<>>} :
           CallVolatility(FeedPool, current_price,
                          FromInt(3600 * samples[FeedPool] + 3600))

FeedQuery ==
    /\ UNCHANGED calls
    /\ \E current_price \in FeedPrices :
           CallVolatility(FeedPool, current_price,
                          FromInt(3600 * samples[FeedPool] + 1800))

NextFeed ==
    \/ FeedSample
    \/ FeedQuery

SpecFeed == Init /\ [][NextFeed]_vars

\* ------------------------------------------------------------------------
\* Notions the properties are stated with
\* ------------------------------------------------------------------------

\* the calls that run the volatility update
UpdateOps == {"calculate_volatility", "calculate_insurance_fee"}

\* |a - b|
AbsDiff(a, b) == IF BLt(a, b) THEN BSub(b, a) ELSE BSub(a, b)

\* the three fields of pool p the volatility update may write are left as
\* they were by the step
PoolUnchanged(p) ==
    /\ price_history'[p] = price_history[p]
    /\ price_update_index'[p] = price_update_index[p]
    /\ price_data_timestamp'[p] = price_data_timestamp[p]

\* r is the integer square root of x
IsRoot(r, x) ==
    /\ BLe(BMul(r, r), x)
    /\ BLt(x, BMul(BAdd(r, <<1>>), BAdd(r, <<1>>)))

\* ------------------------------------------------------------------------
\* C1  Hourly gate
\* ------------------------------------------------------------------------

\* the step is an update call on pool p whose timestamp is within 3600 of
\* that of the update call made on p before it
SecondWithinHour(p) ==
    /\ last'.op \in UpdateOps
    /\ last'.pool_id = p
    /\ called[p].made
    /\ BLt(AbsDiff(last'.timestamp, called[p].timestamp), U3600)

\* t + 3600 does not exceed U256::MAX
NoWrap(t) == BLe(BAdd(t, U3600), U256Max)

\* C1 as stated: of any two successive update calls on a pool whose
\* timestamps differ by less than 3600, the second leaves the pool's
\* price_history, price_update_index and price_data_timestamp unchanged,
\* whether or not the first call's sample was accepted.
C1_AnyTwoCalls ==
    [][\A p \in Pools : SecondWithinHour(p) => PoolUnchanged(p)]_vars

\* C1, amended: if the first of two successive update calls on a pool had
\* its sample accepted at a timestamp t1 with t1 + 3600 <= U256::MAX, a
\* second call whose timestamp differs from t1 by less than 3600 leaves the
\* pool's price_history, price_update_index and price_data_timestamp
\* unchanged, whatever price either call supplies.
C1_AfterAcceptedSample ==
    [][\A p \in Pools :
           (/\ SecondWithinHour(p)
            /\ called[p].accepted
            /\ NoWrap(called[p].timestamp))
               => PoolUnchanged(p)]_vars

\* a second call within the hour of an accepted sample, with another price,
\* was rejected
C1_Witness ==
    /\ last.op \in UpdateOps
    /\ last.before.made
    /\ last.before.accepted
    /\ NoWrap(last.before.timestamp)
    /\ BLt(AbsDiff(last.timestamp, last.before.timestamp), U3600)
    /\ last.current_price # <<>>
    /\ ~last.accepted

\* ------------------------------------------------------------------------
\* C2  At most one update per hour
\* ------------------------------------------------------------------------

\* C2 as stated: a call changes price_history, price_update_index or
\* price_data_timestamp of a pool only if its timestamp is at least the stored
\* price_data_timestamp plus 3600, the sum taken without wraparound; and
\* price_data_timestamp never decreases.
C2_HourlyWithoutWraparound ==
    [][\A p \in Pools :
           /\ ~PoolUnchanged(p)
                  => BLe(BAdd(price_data_timestamp[p], U3600), last'.timestamp)
           /\ BLe(price_data_timestamp[p], price_data_timestamp'[p])]_vars

\* ------------------------------------------------------------------------
\* C3  Zero history
\* ------------------------------------------------------------------------

\* C3: a call of calculate_volatility on a pool whose 30 slots are all zero
\* before the call returns Ok(0), whatever the price and the timestamp, the
\* sample rejected or accepted and written before the scan.
C3_ZeroHistory ==
    [][(/\ last'.op = "calculate_volatility"
        /\ price_history[last'.pool_id] = ZeroHistory)
           => last'.result = Ok(<<>>)]_vars

\* the 30th sample, with a nonzero price, was accepted into slot 0 of a
\* history that was all zero, and the call returned Ok(0)
C3_Witness ==
    /\ last.op = "calculate_volatility"
    /\ last.accepted
    /\ last.current_price # <<>>
    /\ samples[FeedPool] = HistoryLen
    /\ price_history[FeedPool] = [ZeroHistory EXCEPT ![0] = last.current_price]
    /\ last.result = Ok(<<>>)

\* ------------------------------------------------------------------------
\* C4  Insurance-fee scenario
\* ------------------------------------------------------------------------

\* 2e15
TwoE15 == <<0, 0, 0, 0, 0, 2>>

\* the first call on a fresh pool, with the arguments of the scenario
IsScenario ==
    /\ last.op = "calculate_insurance_fee"
    /\ ~last.before.made
    /\ last.amount = E18
    /\ last.total_liquidity = E18
    /\ last.total_volume = <<>>
    /\ last.current_price = Price2000
    /\ last.timestamp = U3600

\* C4 as stated: the scenario call computes volume_multiplier = 1e18,
\* volatility_multiplier = 1e18, il_multiplier = 1e18, size_multiplier = 2e18
\* and returns Ok(2e15).
C4_ScenarioFee ==
    IsScenario =>
        /\ last.volume_multiplier = E18
        /\ last.volatility_multiplier = E18
        /\ last.il_multiplier = E18
        /\ last.size_multiplier = TwoE18
        /\ last.result = Ok(TwoE15)

\* ------------------------------------------------------------------------
\* C5  Overflow propagation
\* ------------------------------------------------------------------------

\* C5 as stated: a call of either fee function whose amount or whose
\* total_liquidity is U256::MAX returns CalculationError.
C5_MaxArgumentFails ==
    (/\ last.op \in {"calculate_insurance_fee", "calculate_flash_loan_fee"}
     /\ last.amount = U256Max \/ last.total_liquidity = U256Max)
        => last.result = CalculationError

\* C5, amended: calculate_flash_loan_fee returns CalculationError when its
\* amount or its total_liquidity is U256::MAX; calculate_insurance_fee
\* returns CalculationError when its amount is U256::MAX and its
\* total_liquidity is not zero.
C5_Overflow ==
    /\ (/\ last.op = "calculate_flash_loan_fee"
        /\ last.amount = U256Max \/ last.total_liquidity = U256Max)
           => last.result = CalculationError
    /\ (/\ last.op = "calculate_insurance_fee"
        /\ last.amount = U256Max
        /\ last.total_liquidity # <<>>)
           => last.result = CalculationError

\* an insurance fee asked for the largest amount on a pool with liquidity,
\* after a volatility estimate that succeeded, failed
C5_Witness ==
    /\ last.op = "calculate_insurance_fee"
    /\ last.amount = U256Max
    /\ last.total_liquidity = E18
    /\ last.volume_multiplier # None
    /\ last.size_multiplier = None
    /\ last.result = CalculationError

\* ------------------------------------------------------------------------
\* C6  Square root
\* ------------------------------------------------------------------------

\* C6 as stated: for every x up to and including U256::MAX the loop of sqrt
\* ends without a division by zero and returns r with r*r <= x < (r+1)*(r+1).
C6_SqrtCorrect ==
    last.op = "sqrt" =>
        /\ last.result.tag = "Ok"
        /\ IsRoot(last.result.val, last.x)

\* ------------------------------------------------------------------------
\* C7  Frame
\* ------------------------------------------------------------------------

\* C7: calculate_flash_loan_fee leaves every stored field unchanged and
\* returns what its four arguments determine; an update call on pool p
\* leaves every other pool's price_history, price_update_index and
\* price_data_timestamp unchanged; no call changes historical_il,
\* last_calculation_time, volatility_accumulator or update_count.
C7_Frame ==
    [][/\ UNCHANGED <<historical_il, last_calculation_time,
                      volatility_accumulator, update_count>>
       /\ last'.op = "calculate_flash_loan_fee"
              => /\ \A p \in Pools : PoolUnchanged(p)
                 /\ last'.result =
                        calculate_flash_loan_fee(
                            last'.amount, last'.total_liquidity,
                            last'.utilization_rate, last'.default_history)
       /\ \A p \in Pools :
              (last'.op \in UpdateOps /\ last'.pool_id # p)
                  => PoolUnchanged(p)]_vars

\* an insurance-fee call stored a sample for p1 after p2 had received one
\* with another price, and p2 still holds its own
C7_Witness ==
    /\ last.op = "calculate_insurance_fee"
    /\ last.pool_id = "p1"
    /\ last.accepted
    /\ last.current_price = Price2000
    /\ price_history["p1"][1] = Price2000
    /\ called["p2"].accepted
    /\ price_update_index["p2"] = <<1>>
    /\ price_history["p2"] = ZeroHistory

\* ------------------------------------------------------------------------
\* C8  Circular buffer
\* ------------------------------------------------------------------------

\* (old index + 1) mod 30 for the stored index of pool p
RingNext(p) == (ToInt(price_update_index[p]) + 1) % HistoryLen

\* what a step that is an update call on p with timestamp >= stored
\* timestamp + 3600 does to p
AcceptedStep(p) ==
    /\ price_update_index'[p] = FromInt(RingNext(p))
    /\ price_history'[p] =
           [price_history[p] EXCEPT ![RingNext(p)] = last'.current_price]
    /\ price_data_timestamp'[p] = last'.timestamp
    /\ price_history'[p][ToInt(price_update_index'[p])] = last'.current_price
    /\ last'.result = estimate(price_history'[p], last'.current_price)

\* C8: price_update_index of every pool is always in 0..29; and a call whose
\* gate condition holds sets the index to (old index + 1) mod 30, stores the
\* price in that slot and the timestamp in price_data_timestamp, leaves the
\* other 29 slots as they were, and scans the history with the new value in.
C8_RingUpdate ==
    /\ [](\A p \in Pools : BLt(price_update_index[p], Thirty))
    /\ [][\A p \in Pools :
              (/\ last'.op \in UpdateOps
               /\ last'.pool_id = p
               /\ BLe(BAdd(price_data_timestamp[p], U3600), last'.timestamp))
                  => AcceptedStep(p)]_vars

\* the 30th sample wrapped the index from 29 to 0 and stored its nonzero
\* price in slot 0, beside the price in slot 1
C8_Witness ==
    /\ last.op = "calculate_volatility"
    /\ last.accepted
    /\ samples[FeedPool] = HistoryLen
    /\ price_update_index[FeedPool] = <<>>
    /\ last.current_price # <<>>
    /\ price_history[FeedPool][0] = last.current_price
    /\ price_history[FeedPool][1] # <<>>
    /\ price_data_timestamp[FeedPool] = last.timestamp

\* ------------------------------------------------------------------------
\* C9  Volatility formula
\* ------------------------------------------------------------------------

\* b^e
RECURSIVE RefPow(_, _)
RefPow(b, e) == IF e = 0 THEN <<1>> ELSE BMul(b, RefPow(b, e - 1))

\* 95^i / 100^i
RefDecay(i) == BDiv(RefPow(<<95>>, i), RefPow(<<100>>, i))

\* |last - price| * WAD / price
RefReturn(lastp, price) == BDiv(BMul(AbsDiff(lastp, price), E18), price)

\* (return * return / WAD) * decay / WAD
TermScaledFirst(r, decay) == BDiv(BMul(BDiv(BMul(r, r), E18), decay), E18)

\* return * return * decay / WAD
TermScaledOnce(r, decay) == BDiv(BMul(BMul(r, r), decay), E18)

\* the scan of slots i..29 in stored order: the sum of the terms and the
\* number of nonzero slots; `once` chooses the term
RECURSIVE RefScan(_, _, _, _, _, _)
RefScan(h, i, lastp, sum, n, once) ==
    IF i = HistoryLen THEN [sum |-> sum, n |-> n]
    ELSE IF h[i] = <<>> THEN RefScan(h, i + 1, lastp, sum, n, once)
    ELSE RefScan(h, i + 1, h[i],
                 BAdd(sum, IF once
                           THEN TermScaledOnce(RefReturn(lastp, h[i]), RefDecay(i))
                           ELSE TermScaledFirst(RefReturn(lastp, h[i]), RefDecay(i))),
                 n + 1, once)

\* v = isqrt(sum * WAD / n) * isqrt(365 * 24) / 1e9 for the scan sc
IsVolatilityOf(v, sc) ==
    IF sc.n = 0 THEN v = <<>>
    ELSE \E r \in {sqrt(BDiv(BMul(sc.sum, E18), FromInt(sc.n)))},
            a \in {sqrt(FromInt(365 * 24))} :
             /\ IsRoot(r, BDiv(BMul(sc.sum, E18), FromInt(sc.n)))
             /\ IsRoot(a, FromInt(365 * 24))
             /\ v = BDiv(BMul(r, a), E9)

\* C9 as stated: when no checked step fails calculate_volatility returns the
\* value of the reference computation in which each nonzero slot adds
\* (return * return / WAD) * decay_i / WAD to the sum.
C9_ReferenceScaledFirst ==
    (last.op = "calculate_volatility" /\ last.result.tag = "Ok")
        => IsVolatilityOf(last.result.val,
                          RefScan(price_history[last.pool_id], 0,
                                  last.current_price, <<>>, 0, FALSE))

\* C9, amended: when no checked step fails calculate_volatility returns the
\* value of the reference computation in which each nonzero slot adds
\* return * return * decay_i / WAD to the sum, with return = |last_valid_price
\* - price| * WAD / price chained from current_price, decay_i = 95^i / 100^i,
\* avg = sum * WAD / valid_points and volatility = isqrt(avg) * isqrt(365*24)
\* / 1e9.
C9_ReferenceScaledOnce ==
    (last.op = "calculate_volatility" /\ last.result.tag = "Ok")
        => IsVolatilityOf(last.result.val,
                          RefScan(price_history[last.pool_id], 0,
                                  last.current_price, <<>>, 0, TRUE))

\* a positive volatility was returned for a history with slot 0 and slot 1
\* nonzero
C9_Witness ==
    /\ last.op = "calculate_volatility"
    /\ last.result.tag = "Ok"
    /\ last.result.val # <<>>
    /\ price_history[FeedPool][0] # <<>>
    /\ price_history[FeedPool][1] # <<>>

\* ------------------------------------------------------------------------
\* C10  No volatility before the 30th sample
\* ------------------------------------------------------------------------

\* C10: the k-th accepted sample of a fresh pool is written to slot k mod 30,
\* the decay weight is 1 for slot 0 and 0 for every other slot, and while the
\* pool has accepted fewer than 30 samples slot 0 is zero and every
\* calculate_volatility call on it returns Ok(0) or CalculationError.
C10_NoEarlyVolatility ==
    /\ ToInt(price_update_index[FeedPool]) = samples[FeedPool] % HistoryLen
    /\ \A i \in 0..(HistoryLen - 1) :
           DecayTable[i + 1] = IF i = 0 THEN <<1>> ELSE <<>>
    /\ samples[FeedPool] < HistoryLen
           => /\ price_history[FeedPool][0] = <<>>
              /\ last.op = "calculate_volatility"
                     => last.result \in {Ok(<<>>), CalculationError}

\* before the 30th sample a query at another price than the one stored in
\* slot 1 returned Ok(0)
C10_Witness ==
    /\ last.op = "calculate_volatility"
    /\ samples[FeedPool] < HistoryLen
    /\ price_history[FeedPool][1] = Price2000
    /\ last.current_price = Price2000Up
    /\ last.result = Ok(<<>>)

====
